---- MODULE Spec2Model ----
(***************************************************************************)
(* Model of ChessEngineEvaluator (src/chess_engine_evaluator.py): the      *)
(* engine session, evaluate_position, evaluate_moves_sequence and          *)
(* compare_moves, over a small board on which only the four knights move.  *)
(***************************************************************************)
EXTENDS Integers, Sequences, FiniteSets, TLC

\* ---------------------------------------------------------------- bounds
\* Longest best line the engine answers a single evaluate_position with.
MaxPvLen == 11
\* Longest move list given to evaluate_moves_sequence and compare_moves.
MaxMoves == 2
\* Largest |centipawns| given to _format_evaluation on its own.
MaxCp == 320

\* ------------------------------------------------------ program constants
\* info['pv'][:10]
PvSanCap == 10
\* depth: int = 20
DefaultDepth == 20

\* ------------------------------------------------------- optional values
\* A dict key that is missing, a key holding None, a key holding a value.
Absent(d) == [st |-> "absent", v |-> d]
NoneOf(d) == [st |-> "None", v |-> d]
Val(x) == [st |-> "val", v |-> x]
\* dict.get(key) is not None
IsNotNone(o) == o.st = "val"
\* truth value of an optional number argument (None and 0 are falsy)
Truthy(o) == o.st = "val" /\ o.v # 0

Abs(n) == IF n < 0 THEN -n ELSE n

\* ------------------------------------------------ board / rules collaborator
Files == <<"a", "b", "c", "d", "e", "f", "g", "h">>
Ranks == <<"1", "2", "3", "4", "5", "6", "7", "8">>
SquareNames == {Files[f] \o Ranks[r] : f \in 1..8, r \in 1..8}
PromotionLetters == {"q", "r", "b", "n"}

\* The squares that carry pieces in this model, in descriptor order.
SquareOrder == <<"g1", "f3", "b1", "c3", "g8", "f6", "b8", "c6">>
ModelSquares == {SquareOrder[k] : k \in 1..Len(SquareOrder)}
\* The one square a knight on each model square can jump to.
KnightJump ==
  [s \in ModelSquares |->
     CASE s = "g1" -> "f3" [] s = "f3" -> "g1"
       [] s = "b1" -> "c3" [] s = "c3" -> "b1"
       [] s = "g8" -> "f6" [] s = "f6" -> "g8"
       [] s = "b8" -> "c6" [] s = "c6" -> "b8"]

PieceChars == {"N", "n", "."}
OwnPiece(turn) == IF turn = "w" THEN "N" ELSE "n"
Other(turn) == IF turn = "w" THEN "b" ELSE "w"

\* chess.Move: from square, to square, promotion letter ("" for none).
MoveOf(from, to, promo) == [from |-> from, to |-> to, promo |-> promo]
NullMove == MoveOf("00", "00", "")

\* chess.Move.from_uci: [ok |-> FALSE] stands for InvalidMoveError (a ValueError).
InvalidUci(s) == "invalid uci: '" \o s \o "'"
from_uci(s) ==
  IF s = "0000" THEN [ok |-> TRUE, move |-> NullMove, err |-> ""]
  ELSE IF /\ Len(s) \in {4, 5}
          /\ SubSeq(s, 1, 2) \in SquareNames
          /\ SubSeq(s, 3, 4) \in SquareNames
          /\ SubSeq(s, 1, 2) # SubSeq(s, 3, 4)
          /\ (Len(s) = 5 => SubSeq(s, 5, 5) \in PromotionLetters)
       THEN [ok |-> TRUE,
             move |-> MoveOf(SubSeq(s, 1, 2), SubSeq(s, 3, 4),
                             IF Len(s) = 5 THEN SubSeq(s, 5, 5) ELSE ""),
             err |-> ""]
       ELSE [ok |-> FALSE, move |-> NullMove, err |-> InvalidUci(s)]

\* chess.Move.uci
uci(m) == IF m = NullMove THEN "0000" ELSE m.from \o m.to \o m.promo

\* chess.Board: occupancy of the model squares, side to move, and the stack of
\* earlier states that pop() returns to.
BoardOf(occ, turn, stack) == [occ |-> occ, turn |-> turn, stack |-> stack]

\* chess.Board.piece_at
piece_at(board, sq) == IF sq \in ModelSquares THEN board.occ[sq] ELSE "."

\* chess.Board.legal_moves
legal_moves(board) ==
  {MoveOf(s, KnightJump[s], "") : s \in
     {q \in ModelSquares : /\ board.occ[q] = OwnPiece(board.turn)
                           /\ board.occ[KnightJump[q]] = "."}}

\* chess.Board.push: no legality check, as in the library.
push(board, m) ==
  BoardOf([s \in ModelSquares |->
             IF s = m.from THEN "."
             ELSE IF s = m.to THEN piece_at(board, m.from)
             ELSE board.occ[s]],
          Other(board.turn),
          Append(board.stack, [occ |-> board.occ, turn |-> board.turn]))

\* chess.Board.pop
pop(board) ==
  LET top == board.stack[Len(board.stack)]
  IN BoardOf(top.occ, top.turn, SubSeq(board.stack, 1, Len(board.stack) - 1))

\* chess.Board.copy
copy(board) == board

\* chess.Board.fen: the placement of the model squares, a blank, the side to move.
RECURSIVE Placement(_, _)
Placement(occ, k) ==
  IF k > Len(SquareOrder) THEN "" ELSE occ[SquareOrder[k]] \o Placement(occ, k + 1)
fen_of(board) == Placement(board.occ, 1) \o " " \o board.turn

\* chess.Board(fen): [ok |-> FALSE] stands for the ValueError of a bad descriptor.
EmptyOcc == [s \in ModelSquares |-> "."]
StartOcc == [s \in ModelSquares |->
               IF s \in {"g1", "b1"} THEN "N" ELSE IF s \in {"g8", "b8"} THEN "n" ELSE "."]
Board(fen) ==
  IF /\ Len(fen) = Len(SquareOrder) + 2
     /\ \A k \in 1..Len(SquareOrder) : SubSeq(fen, k, k) \in PieceChars
     /\ SubSeq(fen, Len(SquareOrder) + 1, Len(SquareOrder) + 1) = " "
     /\ SubSeq(fen, Len(SquareOrder) + 2, Len(SquareOrder) + 2) \in {"w", "b"}
  THEN [ok |-> TRUE,
        board |-> BoardOf([s \in ModelSquares |->
                             LET k == CHOOSE j \in 1..Len(SquareOrder) : SquareOrder[j] = s
                             IN SubSeq(fen, k, k)],
                          SubSeq(fen, Len(SquareOrder) + 2, Len(SquareOrder) + 2),
                          <<>>)]
  ELSE [ok |-> FALSE, board |-> BoardOf(EmptyOcc, "w", <<>>)]

\* chess.Board(): the standard starting position.
StartBoard == BoardOf(StartOcc, "w", <<>>)
STARTING_FEN == fen_of(StartBoard)

\* chess.Board.san: [ok |-> FALSE] stands for the ValueError / AssertionError
\* raised for a move that is not legal on the board.
san(board, m) ==
  IF m \in legal_moves(board) THEN [ok |-> TRUE, text |-> "N" \o m.to]
  ELSE [ok |-> FALSE, text |-> ""]

\* ------------------------------------------------------------ engine scores
\* chess.engine.Cp / Mate / MateGiven.
Cp(n) == [kind |-> "cp", n |-> n]
Mate(n) == [kind |-> "mate", n |-> n]
MateGiven == [kind |-> "mategiven", n |-> 0]
\* info.get('score') is None
NoScore == [kind |-> "none", n |-> 0]

\* Score.__neg__
Neg(s) ==
  CASE s.kind = "cp" -> Cp(-s.n)
    [] s.kind = "mate" -> IF s.n = 0 THEN MateGiven ELSE Mate(-s.n)
    [] s.kind = "mategiven" -> Mate(0)
    [] OTHER -> s
\* Score.is_mate, Score.mate, Score.score
is_mate(s) == s.kind \in {"mate", "mategiven"}
mate_of(s) == s.n
score_of(s) == s.n

\* chess.engine.PovScore: a score relative to the side `turn`.
PovScore(relative, turn) == [relative |-> relative, turn |-> turn]
\* PovScore.white
white(pov) == IF pov.turn = "w" THEN pov.relative ELSE Neg(pov.relative)

\* ------------------------------------------------------ _format_evaluation
\* abs(pawns) < t for pawns = centipawns / 100 and a threshold of `tenths`
\* tenths of a pawn (0.5, 1.5, 3.0), compared exactly.
AbsPawnsBelowInclusive(centipawns, tenths) == Abs(centipawns) * 10 <= tenths * 100
AbsPawnsBelow(centipawns, tenths) == Abs(centipawns) * 10 < tenths * 100

\* f"{pawns:+.2f}"
TwoDigits(n) == IF n < 10 THEN "0" \o ToString(n) ELSE ToString(n)
SignedPawns(centipawns) ==
  (IF centipawns < 0 THEN "-" ELSE "+")
    \o ToString(Abs(centipawns) \div 100) \o "." \o TwoDigits(Abs(centipawns) % 100)

\* "white" if pawns > 0 else "black"
SideOf(n) == IF n > 0 THEN "white" ELSE "black"

_format_evaluation(centipawns) ==
  IF AbsPawnsBelow(centipawns, 5) THEN "Equal position"
  ELSE IF AbsPawnsBelow(centipawns, 15)
    THEN "Slight advantage for " \o SideOf(centipawns) \o " (" \o SignedPawns(centipawns) \o ")"
  ELSE IF AbsPawnsBelow(centipawns, 30)
    THEN "Clear advantage for " \o SideOf(centipawns) \o " (" \o SignedPawns(centipawns) \o ")"
  ELSE "Winning for " \o SideOf(centipawns) \o " (" \o SignedPawns(centipawns) \o ")"

\* ------------------------------------------------------- evaluate_position
\* A result dictionary: every key the code ever sets, each missing, None or set.
EmptyDict ==
  [fen |-> Absent(""), depth |-> Absent(0), score |-> Absent(0), mate |-> Absent(0),
   evaluation_text |-> Absent(""), best_move |-> Absent(""),
   pv |-> Absent(<<>>), pv_san |-> Absent(<<>>), error |-> Absent("")]

\* "Convert score to white's perspective": -score.white() when Black is to
\* move, score.white() otherwise.
ConvertScore(turn, pov) == IF turn = "b" THEN Neg(white(pov)) ELSE white(pov)

\* The keys set from the score: mate / score / evaluation_text.
ScoreKeys(result, board, info) ==
  IF ~IsNotNone(info.score) THEN result
  ELSE LET score == ConvertScore(board.turn, info.score.v)
       IN IF is_mate(score)
          THEN LET mate_in == mate_of(score)
               IN [result EXCEPT !.mate = Val(mate_in),
                                 !.score = NoneOf(0),
                                 !.evaluation_text =
                                   Val("Mate in " \o ToString(Abs(mate_in))
                                       \o (IF mate_in > 0 THEN " for white" ELSE " for black"))]
          ELSE LET cp_score == score_of(score)
               IN [result EXCEPT !.score = Val(cp_score),
                                 !.mate = NoneOf(0),
                                 !.evaluation_text = Val(_format_evaluation(cp_score))]

\* The replay loop that renders the best line: stops at the first move san()
\* rejects.
RECURSIVE PvSanLoop(_, _, _)
PvSanLoop(board_copy, moves, pv_san) ==
  IF moves = <<>> THEN pv_san
  ELSE LET r == san(board_copy, Head(moves))
       IN IF ~r.ok THEN pv_san
          ELSE PvSanLoop(push(board_copy, Head(moves)), Tail(moves), Append(pv_san, r.text))

\* info['pv'][:10]
PvHeadUncapped(pv) == pv
PvHead(pv) == SubSeq(pv, 1, IF Len(pv) < PvSanCap THEN Len(pv) ELSE PvSanCap)

\* The keys set from the best line: best_move / pv / pv_san.
PvKeys(result, board, info) ==
  IF info.pv = <<>> THEN result
  ELSE [result EXCEPT !.best_move = Val(uci(info.pv[1])),
                      !.pv = Val([k \in 1..Len(info.pv) |-> uci(info.pv[k])]),
                      !.pv_san = Val(PvSanLoop(copy(board), PvHead(info.pv), <<>>))]

\* The dictionary built from the engine's answer.
BuildResult(fen, board, info) ==
  PvKeys(ScoreKeys([EmptyDict EXCEPT !.fen = Val(fen), !.depth = info.depth], board, info),
         board, info)

\* chess.engine.Limit chosen from the arguments.
LimitOf(depth, time_limit) ==
  IF Truthy(time_limit) THEN [kind |-> "time", v |-> time_limit.v]
  ELSE [kind |-> "depth", v |-> IF Truthy(depth) THEN depth.v ELSE DefaultDepth]

\* What one evaluate_position call does, given the attribute self.engine, the
\* state of the engine process behind it and the answer the engine would give:
\* the exception raised ("" for a normal return), the requests handed to the
\* engine object, and the dictionary returned.
NoInfo == [depth |-> NoneOf(0), score |-> NoneOf(PovScore(NoScore, "w")), pv |-> <<>>]
Outcome(raised, requests, result) ==
  [raised |-> raised, requests |-> requests, result |-> result]
evaluate_position_ask_first(engine_attr, process, fen, depth, time_limit, info) ==
  IF engine_attr = "None" THEN Outcome("RuntimeError: Engine not started", <<>>, EmptyDict)
  ELSE LET parsed == Board(fen)
           request == [fen |-> fen, limit |-> LimitOf(depth, time_limit), info |-> NoInfo]
       IN IF process # "running" THEN Outcome("EngineTerminatedError", <<request>>, EmptyDict)
          ELSE IF ~parsed.ok THEN Outcome("ValueError: invalid fen", <<request>>, EmptyDict)
          ELSE Outcome("", <<[request EXCEPT !.info = info]>>,
                       BuildResult(fen, parsed.board, info))
evaluate_position(engine_attr, process, fen, depth, time_limit, info) ==
  IF engine_attr = "None" THEN Outcome("RuntimeError: Engine not started", <<>>, EmptyDict)
  ELSE LET parsed == Board(fen)
       IN IF ~parsed.ok THEN Outcome("ValueError: invalid fen", <<>>, EmptyDict)
          ELSE LET request == [fen |-> fen_of(parsed.board),
                               limit |-> LimitOf(depth, time_limit),
                               info |-> IF process = "running" THEN info ELSE NoInfo]
               IN IF process # "running"
                  THEN Outcome("EngineTerminatedError", <<request>>, EmptyDict)
                  ELSE Outcome("", <<request>>, BuildResult(fen, parsed.board, info))

\* Whether an exception is a ValueError (what the except clauses catch).
IsValueError(raised) == Len(raised) >= 10 /\ SubSeq(raised, 1, 10) = "ValueError"

\* ------------------------------------------------------------------ inputs
\* Position descriptors given by callers: the start, a position with Black
\* to move, and a string that is no descriptor.
BlackToMoveFen == fen_of(push(StartBoard, MoveOf("g1", "f3", "")))
BadFen == "not a fen"
Fens == {STARTING_FEN, BlackToMoveFen, BadFen}
\* Move strings given by callers: knight moves of either side, a well-formed
\* move no piece can make, the null move, and a string that is no move.
MoveStrings == {"g1f3", "b1c3", "g8f6", "e2e4", "0000", "Nf3"}
RECURSIVE SeqsUpTo(_, _)
SeqsUpTo(S, n) ==
  IF n = 0 THEN {<<>>}
  ELSE LET shorter == SeqsUpTo(S, n - 1)
       IN shorter \cup {Append(q, x) : q \in {r \in shorter : Len(r) = n - 1}, x \in S}
MoveLists == SeqsUpTo(MoveStrings, MaxMoves)
\* (depth, time_limit) arguments: neither given, both given.
LimitArgs == {<<NoneOf(0), NoneOf(0)>>, <<Val(12), Val(2)>>}

\* ----------------------------------------------------------- engine answers
\* A best line of n moves from the board: legal moves in turn, except that
\* move number `bad` (0 for none) is one the board rejects.
BogusMove == MoveOf("e2", "e4", "")
RECURSIVE PvLine(_, _, _)
PvLine(b, n, bad) ==
  IF n = 0 THEN <<>>
  ELSE IF bad = 1 THEN <<BogusMove>> \o PvLine(b, n - 1, 0)
  ELSE LET m == CHOOSE x \in legal_moves(b) : TRUE
       IN <<m>> \o PvLine(push(b, m), n - 1, IF bad = 0 THEN 0 ELSE bad - 1)

\* The raw scores the engine reports, relative to the side to move.
RawScores ==
  {Cp(c) : c \in {-150, -49, 0, 50, 300}} \cup {Mate(n) : n \in {-2, 0, 3}}
StepScores == {Cp(-60), Cp(120), Mate(2), Mate(-1)}

\* info as returned by engine.analyse(board, limit): a depth, a score (or
\* none) relative to the side to move, and a best line.
InfoOf(sc, pv) == [depth |-> Val(1), score |-> sc, pv |-> pv]
ScoreChoices(board, scores) ==
  {NoneOf(PovScore(NoScore, "w"))} \cup {Val(PovScore(r, board.turn)) : r \in scores}
LinesOf(board, pvlens) ==
  UNION {{PvLine(board, n, bad) : bad \in 0..n} : n \in pvlens}

\* Answers to a single evaluate_position: every raw score with a short line,
\* and lines up to MaxPvLen moves, good or with one rejected move.
SingleInfos(board) ==
  {InfoOf(sc, pv) : sc \in ScoreChoices(board, RawScores), pv \in LinesOf(board, {0, 1})}
    \cup {InfoOf(sc, pv) : sc \in ScoreChoices(board, {Cp(50)}),
                           pv \in LinesOf(board, 0..MaxPvLen)}
\* Answers inside a sequence or a comparison: no score and no line, or a
\* score with a one-move line.
StepInfos(board) ==
  {NoInfo} \cup {InfoOf(Val(PovScore(r, board.turn)), PvLine(board, 1, 0)) : r \in StepScores}

\* ---------------------------------------------------------- _find_stockfish
\* possible_paths, in the order the loop visits them.
possible_paths ==
  <<"/usr/games/stockfish", "/usr/local/bin/stockfish", "/usr/bin/stockfish",
    "/opt/homebrew/bin/stockfish", "stockfish", "./stockfish">>

\* Path(path).exists(): a relative path is looked up in the working directory,
\* so "./stockfish" and "stockfish" name the same file.
Resolve(path) ==
  IF Len(path) >= 2 /\ SubSeq(path, 1, 2) = "./" THEN SubSeq(path, 3, Len(path)) ELSE path
PathExists(fs, path) == Resolve(path) \in fs

\* raise FileNotFoundError(...)
StockfishNotFound ==
  "FileNotFoundError: Stockfish not found. Please install it or provide the path explicitly.\n"
    \o "Install with: sudo apt-get install stockfish (Linux) or brew install stockfish (Mac)"

\* A return value or an exception of _find_stockfish.
Found(raised, path) == [raised |-> raised, path |-> path]

\* for path in possible_paths: if Path(path).exists() or path == 'stockfish'
RECURSIVE FindFrom(_, _)
FindFrom(fs, k) ==
  IF k > Len(possible_paths) THEN Found(StockfishNotFound, "")
  ELSE IF PathExists(fs, possible_paths[k]) \/ possible_paths[k] = "stockfish"
    THEN Found("", possible_paths[k])
  ELSE FindFrom(fs, k + 1)
_find_stockfish(fs) == FindFrom(fs, 1)

\* The files the loop can find on a machine, and the engine_path arguments
\* given to the constructor: none, a path of the caller's, the empty string.
DiskPaths == {Resolve(possible_paths[k]) : k \in 1..Len(possible_paths)}
CustomPath == "/opt/engines/sf"
EnginePathArgs == {NoneOf(""), Val(CustomPath), Val("")}
\* The machine the session operations run on: one conventional install.
InstalledDisk == {possible_paths[1]}

\* ------------------------------------------------------------------- state
VARIABLES
  exists,        \* the file system: the paths (relative to the working directory) that exist
  engine_path_arg,  \* the engine_path argument the constructor was given
  self_engine_path, \* self.engine_path
  self_engine,   \* self.engine: "None" or "handle"
  proc,          \* the engine process: "unlaunched", "running", "terminated"
  pc,            \* "idle"; inside a loop "seq" / "cmp"; "done" when a call has ended
  last,          \* the current call: what it is, how it ended, what it found
  after_bad_fen, \* the call before was an evaluate_position on a running engine
                 \* that rejected its descriptor
  ret,           \* the dictionary evaluate_position returns
  fen_arg,       \* the descriptor the call was given
  moves,         \* the move list the call was given
  idx,           \* 1-based index of the next move of the loop
  board,         \* the working board of the loop
  evaluations,   \* evaluate_moves_sequence: the list built / returned
  results,       \* compare_moves: the dictionary built / returned
  stdout,        \* the lines the call printed
  reqs,          \* the requests the call handed to the engine object, in order
  trace          \* history: one entry per move the loop has processed

vars == <<exists, engine_path_arg, self_engine_path, self_engine, proc, pc, last, after_bad_fen, ret, fen_arg, moves, idx, board,
          evaluations, results, stdout, reqs, trace>>

EmptyMap == [k \in {} |-> EmptyDict]

\* A call: its name, the exception it raised ("" for none), whether it sent
\* quit to the engine, and the session it found.
CallOf(op, raised, quit_sent) ==
  [op |-> op, raised |-> raised, quit_sent |-> quit_sent,
   engine_was |-> self_engine, proc_was |-> proc]
NoCall ==
  [op |-> "", raised |-> "", quit_sent |-> FALSE,
   engine_was |-> "None", proc_was |-> "unlaunched"]

\* What a call that runs no loop leaves in the loop's variables.
NoLoop(fen) ==
  /\ fen_arg' = fen
  /\ moves' = <<>>
  /\ idx' = 0
  /\ board' = StartBoard
  /\ evaluations' = <<>>
  /\ results' = EmptyMap
  /\ stdout' = <<>>
  /\ trace' = <<>>

\* The state after __init__ on a machine with one conventional install:
\* self.engine_path = the path found, self.engine = None.
Init ==
  /\ exists = InstalledDisk
  /\ engine_path_arg = NoneOf("")
  /\ self_engine_path = Val(_find_stockfish(InstalledDisk).path)
  /\ self_engine = "None"
  /\ proc = "unlaunched"
  /\ pc = "idle"
  /\ last = NoCall
  /\ after_bad_fen = FALSE
  /\ ret = EmptyDict
  /\ fen_arg = ""
  /\ moves = <<>>
  /\ idx = 0
  /\ board = StartBoard
  /\ evaluations = <<>>
  /\ results = EmptyMap
  /\ stdout = <<>>
  /\ reqs = <<>>
  /\ trace = <<>>

\* __enter__: self.engine = popen_uci(...), a fresh running process.
Enter ==
  /\ pc = "idle"
  /\ self_engine' = "handle"
  /\ proc' = "running"
  /\ last' = CallOf("__enter__", "", FALSE)
  /\ pc' = "done"
  /\ ret' = EmptyDict
  /\ reqs' = <<>>
  /\ NoLoop("")
  /\ UNCHANGED <<exists, engine_path_arg, self_engine_path, after_bad_fen>>

\* __exit__: if self.engine: self.engine.quit(). The attribute is left as it
\* is; quit() on a process that has already terminated either returns or
\* raises the library's terminated-engine error.
ExitQuits(engine_attr) == engine_attr # "None"
Exit ==
  /\ pc = "idle"
  /\ self_engine' = self_engine
  /\ proc' = IF ExitQuits(self_engine) THEN "terminated" ELSE proc
  /\ \E raised \in IF ExitQuits(self_engine) /\ proc = "terminated"
                   THEN {"", "EngineTerminatedError"} ELSE {""} :
       last' = CallOf("__exit__", raised, ExitQuits(self_engine))
  /\ pc' = "done"
  /\ ret' = EmptyDict
  /\ reqs' = <<>>
  /\ NoLoop("")
  /\ UNCHANGED <<exists, engine_path_arg, self_engine_path, after_bad_fen>>

\* evaluate_position(fen, depth, time_limit) called by the user.
EvaluatePosition ==
  /\ pc = "idle"
  /\ \E fen \in Fens, args \in LimitArgs :
       LET dry == evaluate_position(self_engine, proc, fen, args[1], args[2], NoInfo)
       IN \E info \in IF dry.raised = "" THEN SingleInfos(Board(fen).board) ELSE {NoInfo} :
            LET o == evaluate_position(self_engine, proc, fen, args[1], args[2], info)
            IN /\ NoLoop(fen)
               /\ last' = CallOf("evaluate_position", o.raised, FALSE)
               /\ ret' = o.result
               /\ reqs' = o.requests
  /\ pc' = "done"
  /\ UNCHANGED <<exists, engine_path_arg, self_engine_path, self_engine, proc, after_bad_fen>>

\* The call has ended: its caller goes on, the call's locals are gone.
Resume ==
  /\ pc = "done"
  /\ pc' = "idle"
  /\ after_bad_fen' = (/\ last.op = "evaluate_position"
                       /\ last.raised = "ValueError: invalid fen"
                       /\ last.proc_was = "running")
  /\ last' = NoCall
  /\ ret' = EmptyDict
  /\ reqs' = <<>>
  /\ NoLoop("")
  /\ UNCHANGED <<exists, engine_path_arg, self_engine_path, self_engine, proc>>

\* ------------------------------------------------- evaluate_moves_sequence
StartArgs == {NoneOf(""), Val(BlackToMoveFen), Val(BadFen)}
NoArg == NoneOf(0)

\* One entry of the history of a loop: the move string, what it turned out to
\* be, the working position before it, the position sent to the engine (""
\* for none), the requests handed to the engine for it, the engine's answer,
\* the dictionary stored for it, and the working position when its processing
\* ended.
Step(move, kind, before, probed, asked, info, stored, after) ==
  [move |-> move, kind |-> kind, before |-> before, probed |-> probed,
   asked |-> asked, info |-> info, stored |-> stored, after |-> after]

\* print(f"Error processing move {move_uci}: {e}")
ErrorLine(move_uci, msg) == "Error processing move " \o move_uci \o ": " \o msg

\* Where the loop goes after the except clause: break leaves the loop.
ContinueAfterError(i, n) == i + 1
AfterValueError(i, n) == n + 1

\* board = chess.Board(starting_fen) if starting_fen else chess.Board(), then
\* the evaluation of the starting position.
SeqBegin ==
  /\ pc = "idle"
  /\ \E ms \in MoveLists, starting_fen \in StartArgs :
       LET given == starting_fen.st = "val" /\ starting_fen.v # ""
           parsed == IF given THEN Board(starting_fen.v)
                     ELSE [ok |-> TRUE, board |-> StartBoard]
           fen == fen_of(parsed.board)
           dry == evaluate_position(self_engine, proc, fen, NoArg, NoArg, NoInfo)
       IN /\ fen_arg' = (IF given THEN starting_fen.v ELSE "")
          /\ moves' = ms
          /\ results' = EmptyMap
          /\ stdout' = <<>>
          /\ trace' = <<>>
          /\ ret' = EmptyDict
          /\ IF ~parsed.ok
             THEN /\ last' = CallOf("evaluate_moves_sequence", "ValueError: invalid fen", FALSE)
                  /\ pc' = "done"
                  /\ board' = StartBoard
                  /\ idx' = 0
                  /\ evaluations' = <<>>
                  /\ reqs' = <<>>
             ELSE \E info \in IF dry.raised = "" THEN StepInfos(parsed.board) ELSE {NoInfo} :
                    LET o == evaluate_position(self_engine, proc, fen, NoArg, NoArg, info)
                    IN /\ last' = CallOf("evaluate_moves_sequence", o.raised, FALSE)
                       /\ pc' = (IF o.raised = "" THEN "seq" ELSE "done")
                       /\ board' = parsed.board
                       /\ idx' = (IF o.raised = "" THEN 1 ELSE 0)
                       /\ evaluations' = (IF o.raised = "" THEN <<o.result>> ELSE <<>>)
                       /\ reqs' = o.requests
  /\ UNCHANGED <<exists, engine_path_arg, self_engine_path, self_engine, proc, after_bad_fen>>

\* for move_uci in moves: the move of pass i.
MoveOfPassReversed(ms, i) == ms[Len(ms) + 1 - i]
MoveOfPass(ms, i) == ms[i]

\* One pass of `for move_uci in moves`.
SeqStep ==
  /\ pc = "seq"
  /\ idx <= Len(moves)
  /\ LET move_uci == MoveOfPass(moves, idx)
         parsed == from_uci(move_uci)
         before == fen_of(board)
     IN IF ~parsed.ok \/ parsed.move \notin legal_moves(board)
        THEN \* ValueError from from_uci or from the legality check: print, break
             LET msg == IF ~parsed.ok THEN parsed.err ELSE "Illegal move: " \o move_uci
             IN /\ stdout' = Append(stdout, ErrorLine(move_uci, msg))
                /\ idx' = AfterValueError(idx, Len(moves))
                /\ trace' = Append(trace,
                                   Step(move_uci, IF parsed.ok THEN "illegal" ELSE "invalid",
                                        before, "", <<>>, NoInfo, EmptyDict, before))
                /\ UNCHANGED <<board, evaluations, reqs, last, pc>>
        ELSE LET pushed == push(board, parsed.move)
                 fen == fen_of(pushed)
                 dry == evaluate_position(self_engine, proc, fen, NoArg, NoArg, NoInfo)
             IN \E info \in IF dry.raised = "" THEN StepInfos(pushed) ELSE {NoInfo} :
                  LET o == evaluate_position(self_engine, proc, fen, NoArg, NoArg, info)
                  IN /\ board' = pushed
                     /\ reqs' = reqs \o o.requests
                     /\ trace' = Append(trace,
                                        Step(move_uci, "legal", before, fen, o.requests, info,
                                             o.result, fen))
                     /\ IF o.raised = ""
                        THEN /\ evaluations' = Append(evaluations, o.result)
                             /\ idx' = idx + 1
                             /\ UNCHANGED <<stdout, last, pc>>
                        ELSE IF IsValueError(o.raised)
                        THEN /\ stdout' = Append(stdout, ErrorLine(move_uci, o.raised))
                             /\ idx' = AfterValueError(idx, Len(moves))
                             /\ UNCHANGED <<evaluations, last, pc>>
                        ELSE /\ last' = [last EXCEPT !.raised = o.raised]
                             /\ pc' = "done"
                             /\ UNCHANGED <<evaluations, stdout, idx>>
  /\ UNCHANGED <<exists, engine_path_arg, self_engine_path, self_engine, proc, after_bad_fen, ret, fen_arg, moves, results>>

\* return evaluations
SeqReturn ==
  /\ pc = "seq"
  /\ idx > Len(moves)
  /\ pc' = "done"
  /\ UNCHANGED <<exists, engine_path_arg, self_engine_path, self_engine, proc, last, after_bad_fen, ret, fen_arg, moves, idx, board,
                 evaluations, results, stdout, reqs, trace>>

\* ------------------------------------------------------------ compare_moves
\* {'error': ...}
ErrorDict(msg) == [EmptyDict EXCEPT !.error = Val(msg)]

\* "Flip score since we're evaluating from opponent's perspective".
KeepSigns(evaluation) == evaluation
FlipSigns(evaluation) ==
  [evaluation EXCEPT
     !.score = IF IsNotNone(evaluation.score) THEN Val(-evaluation.score.v) ELSE @,
     !.mate = IF IsNotNone(evaluation.mate) THEN Val(-evaluation.mate.v) ELSE @]

\* results[move_uci] = ...
DropEntry(res, move_uci, entry) == res
Store(res, move_uci, entry) == (move_uci :> entry) @@ res

\* board.pop() after the evaluation has been stored.
SkipRestore(b) == b
RestoreOrigin(b) == pop(b)

\* board = chess.Board(fen); results = {}
CmpBegin ==
  /\ pc = "idle"
  /\ \E fen \in Fens, ms \in MoveLists :
       LET parsed == Board(fen)
       IN /\ fen_arg' = fen
          /\ moves' = ms
          /\ last' = CallOf("compare_moves",
                            IF parsed.ok THEN "" ELSE "ValueError: invalid fen", FALSE)
          /\ pc' = (IF parsed.ok THEN "cmp" ELSE "done")
          /\ board' = (IF parsed.ok THEN parsed.board ELSE StartBoard)
          /\ idx' = (IF parsed.ok THEN 1 ELSE 0)
  /\ results' = EmptyMap
  /\ evaluations' = <<>>
  /\ stdout' = <<>>
  /\ reqs' = <<>>
  /\ trace' = <<>>
  /\ ret' = EmptyDict
  /\ UNCHANGED <<exists, engine_path_arg, self_engine_path, self_engine, proc, after_bad_fen>>

\* One pass of `for move_uci in moves`.
CmpStep ==
  /\ pc = "cmp"
  /\ idx <= Len(moves)
  /\ LET move_uci == moves[idx]
         parsed == from_uci(move_uci)
         before == fen_of(board)
     IN IF ~parsed.ok
        THEN \* InvalidMoveError is a ValueError: the except clause stores str(e)
             /\ results' = Store(results, move_uci, ErrorDict(parsed.err))
             /\ trace' = Append(trace, Step(move_uci, "invalid", before, "", <<>>, NoInfo,
                                            ErrorDict(parsed.err), before))
             /\ idx' = idx + 1
             /\ UNCHANGED <<board, reqs, last, pc>>
        ELSE IF parsed.move \notin legal_moves(board)
        THEN \* results[move_uci] = {'error': 'Illegal move'}; continue
             /\ results' = Store(results, move_uci, ErrorDict("Illegal move"))
             /\ trace' = Append(trace, Step(move_uci, "illegal", before, "", <<>>, NoInfo,
                                            ErrorDict("Illegal move"), before))
             /\ idx' = idx + 1
             /\ UNCHANGED <<board, reqs, last, pc>>
        ELSE LET pushed == push(board, parsed.move)
                 fen == fen_of(pushed)
                 dry == evaluate_position(self_engine, proc, fen, NoArg, NoArg, NoInfo)
             IN \E info \in IF dry.raised = "" THEN StepInfos(pushed) ELSE {NoInfo} :
                  LET o == evaluate_position(self_engine, proc, fen, NoArg, NoArg, info)
                  IN /\ reqs' = reqs \o o.requests
                     /\ IF o.raised = ""
                        THEN LET evaluation == FlipSigns(o.result)
                                 restored == RestoreOrigin(pushed)
                             IN /\ results' = Store(results, move_uci, evaluation)
                                /\ board' = restored
                                /\ trace' = Append(trace,
                                                   Step(move_uci, "legal", before, fen, o.requests, info,
                                                        evaluation, fen_of(restored)))
                                /\ idx' = idx + 1
                                /\ UNCHANGED <<last, pc>>
                        ELSE IF IsValueError(o.raised)
                        THEN \* caught by the except clause, after push and before pop
                             /\ results' = Store(results, move_uci, ErrorDict(o.raised))
                             /\ board' = pushed
                             /\ trace' = Append(trace,
                                                Step(move_uci, "legal", before, fen, o.requests, info,
                                                     ErrorDict(o.raised), fen))
                             /\ idx' = idx + 1
                             /\ UNCHANGED <<last, pc>>
                        ELSE \* any other exception leaves compare_moves
                             /\ last' = [last EXCEPT !.raised = o.raised]
                             /\ pc' = "done"
                             /\ board' = pushed
                             /\ trace' = Append(trace,
                                                Step(move_uci, "legal", before, fen, o.requests, info,
                                                     EmptyDict, fen))
                             /\ UNCHANGED <<results, idx>>
  /\ UNCHANGED <<exists, engine_path_arg, self_engine_path, self_engine, proc, after_bad_fen, ret, fen_arg, moves, evaluations, stdout>>

\* return results
CmpReturn ==
  /\ pc = "cmp"
  /\ idx > Len(moves)
  /\ pc' = "done"
  /\ UNCHANGED <<exists, engine_path_arg, self_engine_path, self_engine, proc, last, after_bad_fen, ret, fen_arg, moves, idx, board,
                 evaluations, results, stdout, reqs, trace>>

\* ----------------------------------------------------------- specification
Next ==
  \/ Enter
  \/ Exit
  \/ EvaluatePosition
  \/ SeqBegin
  \/ SeqStep
  \/ SeqReturn
  \/ CmpBegin
  \/ CmpStep
  \/ CmpReturn
  \/ Resume

Spec == Init /\ [][Next]_vars

\* _format_evaluation on its own: the score is drawn at the start, one step
\* formats it.
InitFormat ==
  /\ exists = InstalledDisk
  /\ engine_path_arg = NoneOf("")
  /\ self_engine_path = Val(_find_stockfish(InstalledDisk).path)
  /\ self_engine = "None"
  /\ proc = "unlaunched"
  /\ pc = "format"
  /\ last = NoCall
  /\ after_bad_fen = FALSE
  /\ \E c \in -MaxCp..MaxCp : ret = [EmptyDict EXCEPT !.score = Val(c)]
  /\ fen_arg = ""
  /\ moves = <<>>
  /\ idx = 0
  /\ board = StartBoard
  /\ evaluations = <<>>
  /\ results = EmptyMap
  /\ stdout = <<>>
  /\ reqs = <<>>
  /\ trace = <<>>

Format ==
  /\ pc = "format"
  /\ ret' = [ret EXCEPT !.evaluation_text = Val(_format_evaluation(ret.score.v))]
  /\ pc' = "formatted"
  /\ UNCHANGED <<exists, engine_path_arg, self_engine_path, self_engine, proc, last, after_bad_fen, fen_arg, moves, idx, board,
                 evaluations, results, stdout, reqs, trace>>

SpecFormat == InitFormat /\ [][Format]_vars

\* __init__ on its own: the file system and the engine_path argument are drawn
\* at the start, one step runs the constructor.
InitFind ==
  /\ exists \in SUBSET DiskPaths
  /\ engine_path_arg \in EnginePathArgs
  /\ self_engine_path = Absent("")
  /\ self_engine = "None"
  /\ proc = "unlaunched"
  /\ pc = "construct"
  /\ last = NoCall
  /\ after_bad_fen = FALSE
  /\ ret = EmptyDict
  /\ fen_arg = ""
  /\ moves = <<>>
  /\ idx = 0
  /\ board = StartBoard
  /\ evaluations = <<>>
  /\ results = EmptyMap
  /\ stdout = <<>>
  /\ reqs = <<>>
  /\ trace = <<>>

\* __init__: engine_path = self._find_stockfish() when engine_path is None;
\* self.engine_path = engine_path; self.engine = None. An exception of
\* _find_stockfish leaves the constructor before either attribute is set.
Construct ==
  /\ pc = "construct"
  /\ LET found == IF engine_path_arg.st = "None" THEN _find_stockfish(exists)
                  ELSE Found("", engine_path_arg.v)
     IN /\ self_engine_path' = (IF found.raised = "" THEN Val(found.path) ELSE Absent(""))
        /\ last' = CallOf("__init__", found.raised, FALSE)
  /\ self_engine' = "None"
  /\ pc' = "done"
  /\ UNCHANGED <<exists, engine_path_arg, proc, after_bad_fen, ret, fen_arg, moves, idx,
                 board, evaluations, results, stdout, reqs, trace>>

SpecFind == InitFind /\ [][Construct]_vars

\* ------------------------------------------------------------------ helpers
\* A call of `op` has ended.
Ended(op) == pc = "done" /\ last.op = op
\* The call found the session started and its engine running.
FoundRunning == last.engine_was = "handle" /\ last.proc_was = "running"

\* 1-based index of the first move string of ms, from k on, that does not
\* parse or is not legal when the moves before it have been played on b;
\* Len(ms) + 1 when there is none.
RECURSIVE FirstRejected(_, _, _)
FirstRejected(b, ms, k) ==
  IF k > Len(ms) THEN k
  ELSE LET parsed == from_uci(ms[k])
       IN IF parsed.ok /\ parsed.move \in legal_moves(b)
          THEN FirstRejected(push(b, parsed.move), ms, k + 1)
          ELSE k

Min(a, b) == IF a < b THEN a ELSE b
StartsWith(text, prefix) ==
  Len(text) >= Len(prefix) /\ SubSeq(text, 1, Len(prefix)) = prefix

\* ------------------------------------------------------------------- claims

\* C1: evaluate_position reports score and mate relative to White: the raw
\* value r (relative to the side to move) is reported as r when White is to
\* move and as -r when Black is to move.
C1_ReportedRelativeToWhite ==
  (Ended("evaluate_position") /\ last.raised = "" /\ IsNotNone(reqs[1].info.score))
    => LET raw == reqs[1].info.score.v.relative
           turn == Board(fen_arg).board.turn
           reported == IF raw.kind = "cp" THEN ret.score ELSE ret.mate
       IN reported = Val(IF turn = "w" THEN raw.n ELSE -raw.n)

\* C2 as stated: the evaluation text is exactly "Equal position", "Slight
\* advantage for <side>", "Clear advantage for <side>" or "Winning for <side>"
\* by |c| < 50, < 150, < 300, >= 300, with side white when c > 0.
C2_Label(c) ==
  IF Abs(c) < 50 THEN "Equal position"
  ELSE (IF Abs(c) < 150 THEN "Slight advantage for "
        ELSE IF Abs(c) < 300 THEN "Clear advantage for "
        ELSE "Winning for ") \o (IF c > 0 THEN "white" ELSE "black")
C2_TextIsBareLabel ==
  pc = "formatted" => ret.evaluation_text = Val(C2_Label(ret.score.v))

\* C2 as amended: below 50 centipawns the text is exactly "Equal position";
\* from 50 on it is the label of the band (50, 150, 300 are the first values of
\* their bands) for white when c > 0 and black otherwise, followed by a blank
\* and the signed pawn value with two decimals in parentheses.
C2_Examples ==
  [c \in {49, 50, 149, 150, 299, 300} |->
     CASE c = 49 -> "Equal position"
       [] c = 50 -> "Slight advantage for white (+0.50)"
       [] c = 149 -> "Slight advantage for white (+1.49)"
       [] c = 150 -> "Clear advantage for white (+1.50)"
       [] c = 299 -> "Clear advantage for white (+2.99)"
       [] c = 300 -> "Winning for white (+3.00)"]
C2_TextIsLabelWithPawns ==
  pc = "formatted" =>
    LET c == ret.score.v
        text == ret.evaluation_text.v
    IN /\ ret.evaluation_text.st = "val"
       /\ Abs(c) < 50 => text = "Equal position"
       /\ Abs(c) >= 50 =>
            /\ StartsWith(text, C2_Label(c) \o " (" \o (IF c > 0 THEN "+" ELSE "-"))
            /\ Len(text) = Len(C2_Label(c)) + 8
            /\ SubSeq(text, Len(text) - 3, Len(text)) =
                 "." \o ToString((Abs(c) % 100) \div 10) \o ToString(Abs(c) % 10) \o ")"
            /\ SubSeq(text, Len(text) - 4, Len(text) - 4) = ToString(Abs(c) \div 100)
       /\ c \in DOMAIN C2_Examples => text = C2_Examples[c]
C2_Witness ==
  /\ pc = "formatted"
  /\ ret.score = Val(150)
  /\ ret.evaluation_text = Val("Clear advantage for white (+1.50)")

\* C3: on a started session and a starting position that parses,
\* evaluate_moves_sequence does not raise; when every move is legal in turn
\* it returns len(moves) + 1 evaluations and prints nothing; when the first
\* move that is illegal or does not parse is at 0-based index k it returns
\* exactly k + 1 evaluations and reports that move in one printed line.
C3_StartBoard == IF fen_arg = "" THEN StartBoard ELSE Board(fen_arg).board
C3_SequenceLength ==
  (Ended("evaluate_moves_sequence") /\ FoundRunning /\ fen_arg # BadFen) =>
    LET k == FirstRejected(C3_StartBoard, moves, 1) - 1
    IN /\ last.raised = ""
       /\ Len(evaluations) = k + 1
       /\ k = Len(moves) => stdout = <<>>
       /\ k < Len(moves) =>
            /\ Len(stdout) = 1
            /\ StartsWith(stdout[1], "Error processing move " \o moves[k + 1] \o ":")
C3_Witness ==
  /\ Ended("evaluate_moves_sequence")
  /\ FoundRunning
  /\ Len(moves) = 2
  /\ FirstRejected(C3_StartBoard, moves, 1) = 2
  /\ Len(evaluations) = 2
  /\ Len(stdout) = 1

\* C4 as stated: in compare_moves the working position equals the origin
\* position after every candidate has been processed, whichever way its
\* processing ended.
C4_RestoredAfterEveryCandidate ==
  last.op = "compare_moves" =>
    \A j \in 1..Len(trace) : trace[j].after = fen_arg

\* C4 as amended: in compare_moves the working position equals the origin
\* position after every candidate whose processing lets the call go on (a
\* legal candidate that was evaluated, an illegal one, an unparseable one), so
\* every candidate is met at the origin position, every legal candidate is
\* evaluated on the position one move from the origin, and the working board
\* is the origin board when the call returns; when the evaluation of a
\* candidate raises, the call ends with the candidate's move still applied.
C4_Origin == Board(fen_arg).board
C4_RestoredWhileCallGoesOn ==
  (last.op = "compare_moves" /\ fen_arg # BadFen) =>
    /\ last.raised = "" => (board = C4_Origin /\ fen_of(board) = fen_arg)
    /\ \A j \in 1..Len(trace) :
         /\ trace[j].before = fen_arg
         /\ trace[j].kind = "legal" =>
              trace[j].probed = fen_of(push(C4_Origin, from_uci(trace[j].move).move))
         /\ (j < Len(trace) \/ last.raised = "") => trace[j].after = fen_arg
         /\ (j = Len(trace) /\ last.raised # "") =>
              (trace[j].after = trace[j].probed /\ fen_of(board) = trace[j].probed)
C4_Witness ==
  /\ Ended("compare_moves")
  /\ last.raised = ""
  /\ Len(trace) = 2
  /\ trace[1].kind = "legal"
  /\ trace[2].kind = "legal"
  /\ trace[1].move # trace[2].move
  /\ board = C4_Origin

\* C5: for every legal candidate M from a position with White to move, if
\* evaluate_position on the position after M yields score S (or mate S),
\* compare_moves stores -S for M; a score or mate that is None or missing
\* stays so.
C5_Negated(o) == IF IsNotNone(o) THEN Val(-o.v) ELSE o
RECURSIVE FirstRejectedMove(_, _, _)
FirstRejectedMove(b, pv, k) ==
  IF k > Len(pv) THEN k
  ELSE IF pv[k] \in legal_moves(b) THEN FirstRejectedMove(push(b, pv[k]), pv, k + 1)
  ELSE k

\* C6 as stated: pv_san is never longer than pv, and it is strictly shorter
\* exactly when the line holds a move that is illegal in replay, also for
\* lines longer than 10 moves.
C6_ShorterOnlyOnIllegal ==
  (Ended("evaluate_position") /\ last.raised = "" /\ ret.pv.st = "val") =>
    LET line == reqs[1].info.pv
    IN /\ Len(ret.pv_san.v) <= Len(ret.pv.v)
       /\ (Len(ret.pv_san.v) < Len(ret.pv.v))
            <=> (FirstRejectedMove(Board(fen_arg).board, line, 1) <= Len(line))

\* C6 as amended: pv is the engine's whole line; pv_san is never longer, and
\* its length is the smallest of 10, the length of the line and the number of
\* moves before the first one that is illegal in replay: it is strictly
\* shorter than pv exactly when an illegal move is met among the first 10
\* moves or the line has more than 10 moves.
C6_CappedOrCutAtIllegal ==
  (Ended("evaluate_position") /\ last.raised = "" /\ ret.pv.st = "val") =>
    LET line == reqs[1].info.pv
        first == FirstRejectedMove(Board(fen_arg).board, line, 1)
    IN /\ ret.pv.v = [k \in 1..Len(line) |-> uci(line[k])]
       /\ ret.pv_san.st = "val"
       /\ Len(ret.pv_san.v) <= Len(ret.pv.v)
       /\ Len(ret.pv_san.v) = Min(PvSanCap, Min(Len(line), first - 1))
       /\ (Len(ret.pv_san.v) < Len(ret.pv.v))
            <=> (first <= Min(Len(line), PvSanCap) \/ Len(line) > PvSanCap)
C6_Witness ==
  /\ Ended("evaluate_position")
  /\ last.raised = ""
  /\ ret.pv.st = "val"
  /\ Len(ret.pv.v) > PvSanCap
  /\ Len(ret.pv_san.v) = PvSanCap
  /\ FirstRejectedMove(Board(fen_arg).board, reqs[1].info.pv, 1) > Len(reqs[1].info.pv)

\* C7: an evaluate_position call (here with a descriptor that parses) made
\* before the session is started or after it has been stopped fails with the
\* engine-not-started error, sends no request to the engine, and does not
\* start the session.
C7_OutsideSessionNotStarted ==
  (Ended("evaluate_position") /\ last.proc_was # "running" /\ Board(fen_arg).ok) =>
    /\ last.raised = "RuntimeError: Engine not started"
    /\ reqs = <<>>
    /\ self_engine = last.engine_was
    /\ proc = last.proc_was

\* C8: __exit__ on a session that was never started does nothing, and on a
\* session that is already stopped it sends no further quit request, does not
\* fail and leaves the session state as it was.
C8_ExitIdempotent ==
  (Ended("__exit__") /\ last.proc_was # "running") =>
    /\ ~last.quit_sent
    /\ last.raised = ""
    /\ self_engine = last.engine_was
    /\ proc = last.proc_was

\* C9: on a started session evaluate_position with a descriptor that does not
\* parse fails with the invalid-descriptor error before any request is sent
\* and leaves the session as it was; an evaluate_position with a valid
\* descriptor that follows it returns normally after one request.
C9_BadDescriptorLeavesSessionUsable ==
  /\ (Ended("evaluate_position") /\ FoundRunning /\ ~Board(fen_arg).ok) =>
       /\ last.raised = "ValueError: invalid fen"
       /\ reqs = <<>>
       /\ self_engine = "handle"
       /\ proc = "running"
  /\ (pc = "idle" /\ after_bad_fen) => (self_engine = "handle" /\ proc = "running")
  /\ (Ended("evaluate_position") /\ after_bad_fen /\ Board(fen_arg).ok) =>
       /\ last.raised = ""
       /\ Len(reqs) = 1
       /\ reqs[1].fen = fen_arg
       /\ ret.fen = Val(fen_arg)
C9_Witness ==
  /\ Ended("evaluate_position")
  /\ after_bad_fen
  /\ Board(fen_arg).ok
  /\ last.raised = ""
  /\ Len(reqs) = 1

\* C10: compare_moves never fails because of an illegal or unparseable
\* candidate: each such candidate gets an error entry, no analysis request is
\* issued for it, the loop goes on with the next candidate, and on return
\* every candidate string supplied is a key of the result.
C10_IsError(j) == trace[j].kind \in {"illegal", "invalid"}
C10_ErrorsAreLocal ==
  (last.op = "compare_moves" /\ fen_arg # BadFen) =>
    /\ \A j \in 1..Len(trace) :
         C10_IsError(j) =>
           /\ trace[j].asked = <<>>
           /\ trace[j].move \in DOMAIN results
           /\ IsNotNone(results[trace[j].move].error)
           /\ results[trace[j].move].score = Absent(0)
           /\ j = Len(trace) => (last.raised = "" /\ idx = j + 1)
    /\ Len(reqs) = Cardinality({j \in 1..Len(trace) : trace[j].asked # <<>>})
    /\ \A r \in 1..Len(reqs) : \E j \in 1..Len(trace) :
         trace[j].kind = "legal" /\ trace[j].asked = <<reqs[r]>>
    /\ last.raised # "" => (trace # <<>> /\ trace[Len(trace)].kind = "legal")
    /\ (pc = "done" /\ last.raised = "") =>
         /\ Len(trace) = Len(moves)
         /\ \A k \in 1..Len(moves) : moves[k] \in DOMAIN results /\ trace[k].move = moves[k]
C10_Witness ==
  /\ Ended("compare_moves")
  /\ last.raised = ""
  /\ Len(trace) = 2
  /\ trace[1].kind = "invalid"
  /\ trace[2].kind = "illegal"
  /\ Cardinality(DOMAIN results) = 2

\* C11: when no explicit engine path is given, the constructor selects the
\* first candidate of possible_paths, in order, that exists; when none of the
\* candidates exists it fails with the FileNotFoundError that carries the
\* install hint, and no engine path is set.
C11_FirstExisting(fs) ==
  LET found == {k \in 1..Len(possible_paths) : PathExists(fs, possible_paths[k])}
  IN IF found = {} THEN 0 ELSE CHOOSE k \in found : \A j \in found : k <= j
C11_FirstExistingOrFail ==
  (Ended("__init__") /\ engine_path_arg = NoneOf("")) =>
    LET k == C11_FirstExisting(exists)
    IN IF k > 0
       THEN last.raised = "" /\ self_engine_path = Val(possible_paths[k])
       ELSE /\ last.raised = StockfishNotFound
            /\ self_engine_path = Absent("")

\* The board after the first n moves of ms have been played on b.
RECURSIVE C12_Replay(_, _, _)
C12_Replay(b, ms, n) ==
  IF n = 0 THEN b ELSE push(C12_Replay(b, ms, n - 1), from_uci(ms[n]).move)

\* C12: evaluate_moves_sequence hands its requests to the engine one per
\* position in move order: request number i (from 0) is for the position after
\* the first i moves, the first for the starting position; pass i of the loop
\* starts from the board the pass before left and sends at most one request;
\* evaluation number i is the answer to request number i; and no request is
\* sent for a position at or after the first move that is illegal or does not
\* parse, so that on a started session there are exactly k + 1 requests when
\* that move is at index k and len(moves) + 1 when there is none.
C12_RequestsInMoveOrder ==
  (last.op = "evaluate_moves_sequence" /\ fen_arg # BadFen) =>
    LET start == C3_StartBoard
        k == FirstRejected(start, moves, 1) - 1
    IN /\ Len(reqs) <= k + 1
       /\ \A r \in 1..Len(reqs) : reqs[r].fen = fen_of(C12_Replay(start, moves, r - 1))
       /\ Len(evaluations) <= Len(reqs)
       /\ \A i \in 1..Len(evaluations) :
            /\ evaluations[i].fen = Val(fen_of(C12_Replay(start, moves, i - 1)))
            /\ evaluations[i] = BuildResult(reqs[i].fen, Board(reqs[i].fen).board, reqs[i].info)
       /\ \A j \in 1..Len(trace) :
            /\ trace[j].move = moves[j]
            /\ trace[j].before = fen_of(C12_Replay(start, moves, Min(j - 1, k)))
            /\ Len(trace[j].asked) <= 1
            /\ trace[j].asked # <<>> =>
                 (j <= k /\ j + 1 <= Len(reqs) /\ trace[j].asked = <<reqs[j + 1]>>)
            /\ j > k => (trace[j].asked = <<>> /\ j = k + 1)
       /\ (pc = "seq" /\ FoundRunning) => Len(reqs) = Min(idx, k + 1)
       /\ (pc = "done" /\ FoundRunning) =>
            (last.raised = "" /\ Len(reqs) = k + 1 /\ Len(evaluations) = k + 1)
C12_Witness ==
  /\ Ended("evaluate_moves_sequence")
  /\ FoundRunning
  /\ Len(moves) = 2
  /\ FirstRejected(C3_StartBoard, moves, 1) = 3
  /\ Len(reqs) = 3
  /\ reqs[1].fen = fen_of(C3_StartBoard)
  /\ reqs[2].fen # reqs[1].fen
  /\ reqs[3].fen \notin {reqs[1].fen, reqs[2].fen}
  /\ reqs[3].fen = fen_of(board)

\* The text holds the word somewhere.
C13_Contains(text, word) ==
  \E i \in 1..(Len(text) - Len(word) + 1) : SubSeq(text, i, i + Len(word) - 1) = word

\* C13: in every evaluation compare_moves has stored, the side named in
\* evaluation_text agrees with the sign of the stored value (the score, or the
\* mate when the score is None), which is the value after the sign flip: the
\* text names white and not black when the value is positive, black and not
\* white when it is negative.
C13_TextSideAgreesWithSign ==
  last.op = "compare_moves" =>
    \A mv \in DOMAIN results :
      LET e == results[mv]
          text == e.evaluation_text.v
          value == IF IsNotNone(e.score) THEN e.score.v
                   ELSE IF IsNotNone(e.mate) THEN e.mate.v ELSE 0
      IN IsNotNone(e.evaluation_text) =>
           /\ value > 0 => (C13_Contains(text, "white") /\ ~C13_Contains(text, "black"))
           /\ value < 0 => (C13_Contains(text, "black") /\ ~C13_Contains(text, "white"))
====
